---- MODULE Spec2Model ----
(***************************************************************************)
(* Model of the soccer-prediction-master repository:                       *)
(*   - the data collection orchestrator (src/src/data_collection/main.py), *)
(*   - the demo collector (src/src/main.py),                               *)
(*   - the command line entry point (src/main.py).                         *)
(*                                                                         *)
(* Three specifications share the variables:                               *)
(*   Spec        construction of DataCollector and collect_league_data     *)
(*   SpecCombine _combine_results as a pure function of a result list      *)
(*   SpecCLI     main() of the command line entry point                    *)
(*                                                                         *)
(* pandas is the release pinned by the repository (2.0.3).  Python values  *)
(* are tagged records; strings that the code slices or rewrites are        *)
(* sequences of one-character strings.                                     *)
(***************************************************************************)
EXTENDS Integers, Sequences, FiniteSets, TLC

VARIABLES
    \* ---- orchestrator (Spec)
    cfgFile,      \* what config.yaml holds on disk
    config,       \* self.config
    clients,      \* keys of self.clients
    ctor,         \* "none" | "ok" | "raised": outcome of DataCollector()
    instantiated, \* FootballDataClient(...) has been constructed
    invoked,      \* client.get_matches(...) has been called
    pc,           \* position of collect_league_data
    req,          \* [league, season] of the current call
    tasks,        \* the task list, in the order of tasks.append
    order,        \* the tasks in their order of completion
    taskOut,      \* task name -> what the coroutine ended with
    fetchRaised,  \* get_matches (or int(season[:4])) raised in this call
    results,      \* what asyncio.gather returned
    combined,     \* combined_data
    written,      \* files written by _save_data in this call, in order
    ret,          \* what collect_league_data gave its caller
    calls,        \* number of collect_league_data calls so far
    \* ---- _combine_results alone (SpecCombine)
    crIn,         \* the list handed to _combine_results
    crOut,        \* its outcome
    crPc,
    \* ---- command line (SpecCLI)
    argv,         \* the command line
    cliPc,
    resolved,     \* what "from data_collection.main import DataCollector" found
    matches,      \* the collection collect_data holds
    outFiles,     \* files written by collect_data
    success,      \* main's local "success": "unset" | "true" | "false"
    exitCode      \* the process exit status, -1 while running

orchVars == <<cfgFile, config, clients, ctor, instantiated, invoked, pc, req,
              tasks, order, taskOut, fetchRaised, results, combined, written,
              ret, calls>>
combVars == <<crIn, crOut, crPc>>
cliVars  == <<argv, cliPc, resolved, matches, outFiles, success, exitCode>>
vars     == <<orchVars, combVars, cliVars>>

----------------------------------------------------------------------------
(* Bounds *)

MaxRows     == 2   \* rows of a frame in a pair handed to the merge
MaxListRows == 1   \* rows of a frame in a result list / from the client
MaxResults  == 2   \* length of a result list
MaxCalls    == 2   \* collect_league_data calls per orchestrator

----------------------------------------------------------------------------
(* Sequences helpers *)

Range(s) == {s[i] : i \in 1..Len(s)}

IndexOf(s, e) == CHOOSE i \in 1..Len(s) : s[i] = e

RemoveAt(s, i) == [j \in 1..(Len(s) - 1) |-> IF j < i THEN s[j] ELSE s[j + 1]]

SeqsUpTo(S, n) == UNION {[1..k -> S] : k \in 0..n}

RECURSIVE Join(_)
Join(s) == IF s = <<>> THEN "" ELSE Head(s) \o Join(Tail(s))

----------------------------------------------------------------------------
(* pandas.DataFrame: column labels and rows of cell values.  A result of   *)
(* a task is a frame ("df"), a captured exception ("exc") or any other     *)
(* object ("other").                                                       *)

KeyCol == "match_id"

Frame(cols, rows) == [t |-> "df", cols |-> cols, rows |-> rows]

\* pd.DataFrame()
EmptyFrame == Frame(<<>>, <<>>)

ExcResult   == [t |-> "exc", cols |-> <<>>, rows |-> <<>>]
OtherResult == [t |-> "other", cols |-> <<>>, rows |-> <<>>]

\* DataFrame.empty: any axis of length 0
IsEmpty(f) == Len(f.cols) = 0 \/ Len(f.rows) = 0

HasKey(f) == KeyCol \in Range(f.cols)

KeyIdx(f) == IndexOf(f.cols, KeyCol)

KeysOf(f) == {f.rows[i][KeyIdx(f)] : i \in 1..Len(f.rows)}

\* the order pandas sorts the join keys in (how='outer' sorts them)
MatchIdOrder == <<"m1", "m2">>

NaN == "NaN"

----------------------------------------------------------------------------
(* pd.merge(left, right, on='match_id', how='outer', suffixes=('','_dup')) *)

\* labels of the right frame after its key column is dropped
RightLabels(right) == RemoveAt(right.cols, KeyIdx(right))

\* labels both sides carry besides the key
ToRename(left, right) == Range(left.cols) \cap Range(RightLabels(right))

\* the right side's labels, the overlapping ones suffixed; the left
\* suffix is '' and leaves the left labels as they are
RenamedRight(left, right) ==
    [j \in 1..Len(RightLabels(right)) |->
        IF RightLabels(right)[j] \in ToRename(left, right)
        THEN RightLabels(right)[j] \o "_dup"
        ELSE RightLabels(right)[j]]

IsUnique(s) == \A i, j \in 1..Len(s) : s[i] = s[j] => i = j

\* pandas raises MergeError when suffixing makes two labels of one side equal
MergeRaises(left, right) == ~IsUnique(RenamedRight(left, right))

RowsWithKey(f, k) == SelectSeq(f.rows, LAMBDA r : r[KeyIdx(f)] = k)

\* the rows of the outer join for one key value
KeyBlock(left, right, k) ==
    LET L  == RowsWithKey(left, k)
        R  == RowsWithKey(right, k)
        rk == KeyIdx(right)
        nl == Len(left.cols)
        nr == Len(right.cols) - 1
    IN  IF L # <<>> /\ R # <<>>
        THEN [n \in 1..(Len(L) * Len(R)) |->
                L[((n - 1) \div Len(R)) + 1]
                    \o RemoveAt(R[((n - 1) % Len(R)) + 1], rk)]
        ELSE IF L # <<>>
        THEN [n \in 1..Len(L) |-> L[n] \o [j \in 1..nr |-> NaN]]
        ELSE [n \in 1..Len(R) |->
                [j \in 1..nl |-> IF j = KeyIdx(left) THEN k ELSE NaN]
                    \o RemoveAt(R[n], rk)]

RECURSIVE KeyBlocks(_, _, _)
KeyBlocks(left, right, i) ==
    IF i > Len(MatchIdOrder) THEN <<>>
    ELSE KeyBlock(left, right, MatchIdOrder[i]) \o KeyBlocks(left, right, i + 1)

Merge(left, right) ==
    Frame(left.cols \o RenamedRight(left, right), KeyBlocks(left, right, 1))

----------------------------------------------------------------------------
(* DataCollector._combine_results                                          *)

Returned(v) == [kind |-> "return", val |-> v]
Raised      == [kind |-> "raise", val |-> EmptyFrame]

\* line 102: isinstance(result, pd.DataFrame) and not result.empty
IsValidResult_NoEmptyCheck(r) == r.t = "df"

IsValidResult(r) == r.t = "df" /\ ~IsEmpty(r)

\* lines 114-116: one turn of the merge loop; the outcome of the loop so far
\* is a frame or the exception pd.merge raised
MergeStep(acc, df) ==
    IF acc.kind = "raise" THEN acc
    ELSE IF HasKey(df) /\ HasKey(acc.val)
         THEN IF MergeRaises(acc.val, df) THEN Raised
              ELSE Returned(Merge(acc.val, df))
         ELSE acc

RECURSIVE MergeLoop(_, _)
MergeLoop(acc, rest) ==
    IF rest = <<>> THEN acc
    ELSE MergeLoop(MergeStep(acc, Head(rest)), Tail(rest))

CombineResults(rs) ==
    IF rs = <<>> THEN Returned(EmptyFrame)
    ELSE LET valid_results == SelectSeq(rs, IsValidResult)
         IN  IF valid_results = <<>> THEN Returned(EmptyFrame)
             ELSE MergeLoop(Returned(Head(valid_results)), Tail(valid_results))

----------------------------------------------------------------------------
(* The frames the model draws its inputs from *)

Layouts == {<<>>, <<"match_id", "x">>, <<"match_id", "y">>, <<"x">>,
            <<"match_id", "x", "x_dup">>}

CellValues(c) ==
    CASE c = "match_id" -> Range(MatchIdOrder)
      [] c = "x"        -> {"1", "2"}
      [] c = "y"        -> {"3"}
      [] OTHER          -> {"4"}

RowsOf(cols) == {r \in [1..Len(cols) -> {"m1", "m2", "1", "2", "3", "4"}] :
                    \A j \in 1..Len(cols) : r[j] \in CellValues(cols[j])}

FramesUpTo(n) ==
    UNION {{Frame(cols, rows) :
                rows \in IF cols = <<>> THEN {<<>>} ELSE SeqsUpTo(RowsOf(cols), n)} :
           cols \in Layouts}

ListResults == FramesUpTo(MaxListRows) \cup {ExcResult, OtherResult}

PairFrames == {f \in FramesUpTo(MaxRows) : ~IsEmpty(f)}

CombineInputs ==
    SeqsUpTo(ListResults, MaxResults)
        \cup {<<a, b>> : a \in PairFrames, b \in PairFrames}

----------------------------------------------------------------------------
(* Python values of the configuration document *)

PyNone      == [t |-> "none", s |-> "", items |-> {}]
PyStr(s)    == [t |-> "str", s |-> s, items |-> {}]
PyDict(kvs) == [t |-> "dict", s |-> "", items |-> kvs]

\* bool(v)
Truthy(v) ==
    CASE v.t = "none" -> FALSE
      [] v.t = "str"  -> v.s # ""
      [] OTHER        -> v.items # {}

HasItem(d, k) == \E kv \in d.items : kv[1] = k

\* dict.get(k, default)
DictGet(d, k, default) ==
    IF HasItem(d, k) THEN (CHOOSE kv \in d.items : kv[1] = k)[2] ELSE default

\* what yaml.safe_load can return for the documents the model draws
ApiKeyValues == {PyNone, PyStr(""), PyStr("k1")}

OrgValues == {PyNone, PyDict({})}
                \cup {PyDict({<<"api_key", z>>}) : z \in ApiKeyValues}

SourcesValues == {PyNone, PyDict({})}
                    \cup {PyDict({<<"football_data_org", y>>}) : y \in OrgValues}

Documents == {PyNone, PyStr("text"), PyDict({})}
                \cup {PyDict({<<"data_sources", x>>}) : x \in SourcesValues}

\* the file at config_path: absent, not parseable, or a document
ConfigFiles == {[t |-> "absent", doc |-> PyNone], [t |-> "malformed", doc |-> PyNone]}
                  \cup {[t |-> "doc", doc |-> d] : d \in Documents}

----------------------------------------------------------------------------
(* DataCollector.__init__ *)

\* _load_config: FileNotFoundError gives {}, any other error propagates,
\* otherwise whatever yaml.safe_load returned (None for a file with no content)
LoadConfig(file) ==
    CASE file.t = "absent"    -> [kind |-> "return", val |-> PyDict({})]
      [] file.t = "malformed" -> [kind |-> "raise", val |-> PyNone]
      [] OTHER                -> [kind |-> "return", val |-> file.doc]

\* line 37: the chained .get; a .get on a value that is no dict raises
\* AttributeError
ApiKeyOf(cfg) ==
    IF cfg.t # "dict" THEN [kind |-> "raise", val |-> PyNone]
    ELSE LET ds == DictGet(cfg, "data_sources", PyDict({}))
         IN  IF ds.t # "dict" THEN [kind |-> "raise", val |-> PyNone]
             ELSE LET org == DictGet(ds, "football_data_org", PyDict({}))
                  IN  IF org.t # "dict" THEN [kind |-> "raise", val |-> PyNone]
                      ELSE [kind |-> "return",
                            val |-> DictGet(org, "api_key", PyNone)]

\* line 38: if api_key
WantsClient_NotNone(api_key) == api_key.t # "none"

WantsClient(api_key) == Truthy(api_key)

\* _initialize_clients: the keys of the mapping it returns
InitializeClients(cfg) ==
    LET k == ApiKeyOf(cfg)
    IN  IF k.kind = "raise" THEN [kind |-> "raise", val |-> {}]
        ELSE [kind |-> "return",
              val |-> (IF WantsClient(k.val) THEN {"football_data"} ELSE {})
                          \cup {"free_data"}]

----------------------------------------------------------------------------
(* Strings the orchestrator slices and rewrites *)

Digits == {"0", "1", "2", "3", "4", "5", "6", "7", "8", "9"}

\* s[:4]
Slice4(s) == SubSeq(s, 1, IF Len(s) < 4 THEN Len(s) ELSE 4)

AllDigits(s) == s # <<>> /\ \A i \in 1..Len(s) : s[i] \in Digits

\* int(s) succeeds: digits, with an optional sign in front
IntParses(s) ==
    \/ AllDigits(s)
    \/ s # <<>> /\ Head(s) \in {"-", "+"} /\ AllDigits(Tail(s))

\* season.replace('-', '_')
Replace(s) == [i \in 1..Len(s) |-> IF s[i] = "-" THEN "_" ELSE s[i]]

Leagues == {"EPL", "PL", "PD"}

Seasons == {<<"2", "0", "2", "3", "-", "2", "4">>,
            <<"2", "3", "-", "2", "4">>,
            <<"2", "0", "2", "3">>,
            <<"2", "0", "2", "3", "-", "2", "4", "-", "x">>}

\* a file under data/raw
FileName(league, season, ext) ==
    [dir |-> "data/raw", league |-> league, stem |-> Replace(season), ext |-> ext]

----------------------------------------------------------------------------
(* The source fetches *)

UnsizedResult == [t |-> "unsized", cols |-> <<>>, rows |-> <<>>]

\* what FootballDataClient.get_matches can do: return a frame, return some
\* other object (with or without a length), or raise
ClientOutcomes ==
    {Returned(v) : v \in FramesUpTo(MaxListRows) \cup {OtherResult, UnsizedResult}}
        \cup {Raised}

\* something inside the try block of _collect_matches_football_data raises:
\* int(season[:4]), get_matches, or len(matches)
RaisesInTry(season, outcome) ==
    \/ ~IntParses(Slice4(season))
    \/ outcome.kind = "raise"
    \/ outcome.val.t = "unsized"

\* _collect_matches_football_data without its try/except
CollectMatchesFootballData_NoCatch(season, outcome) ==
    IF RaisesInTry(season, outcome) THEN Raised ELSE Returned(outcome.val)

\* _collect_matches_football_data: what the coroutine ends with
CollectMatchesFootballData(season, outcome) ==
    IF RaisesInTry(season, outcome) THEN Returned(EmptyFrame)
    ELSE Returned(outcome.val)

\* _collect_free_data
CollectFreeData == Returned(EmptyFrame)

\* asyncio.gather(*tasks, return_exceptions=True) in completion order
Gather_CompletionOrder(ts, done, out) ==
    [i \in 1..Len(done) |->
        IF out[done[i]].kind = "raise" THEN ExcResult ELSE out[done[i]].val]

\* asyncio.gather(*tasks, return_exceptions=True): one result per task, in
\* the order of the task list
Gather(ts, done, out) ==
    [i \in 1..Len(ts) |->
        IF out[ts[i]].kind = "raise" THEN ExcResult ELSE out[ts[i]].val]

----------------------------------------------------------------------------
(* DataCollector._save_data: the files written and whether it raised.      *)
(* mkdir, to_csv and to_parquet each succeed or raise.                     *)

SaveData_Always(data, league, season, mkdirOk, csvOk, pqOk) ==
    IF ~mkdirOk THEN [kind |-> "raise", files |-> <<>>]
    ELSE IF ~csvOk THEN [kind |-> "raise", files |-> <<>>]
    ELSE IF ~pqOk
         THEN [kind |-> "raise", files |-> <<FileName(league, season, ".csv")>>]
    ELSE [kind |-> "return",
          files |-> <<FileName(league, season, ".csv"),
                      FileName(league, season, ".parquet")>>]

SaveData(data, league, season, mkdirOk, csvOk, pqOk) ==
    IF IsEmpty(data) THEN [kind |-> "return", files |-> <<>>]
    ELSE IF ~mkdirOk THEN [kind |-> "raise", files |-> <<>>]
    ELSE IF ~csvOk THEN [kind |-> "raise", files |-> <<>>]
    ELSE IF ~pqOk
         THEN [kind |-> "raise", files |-> <<FileName(league, season, ".csv")>>]
    ELSE [kind |-> "return",
          files |-> <<FileName(league, season, ".csv"),
                      FileName(league, season, ".parquet")>>]

----------------------------------------------------------------------------
(* Idle values of the three groups of variables *)

NoReq  == [league |-> "", season |-> <<>>]
NoRet  == [kind |-> "none", val |-> EmptyFrame]
NoOut  == [football_data |-> NoRet, free_data |-> NoRet]
NoArgv == [command |-> "", league |-> "", season |-> <<>>, valid |-> TRUE]

OrchIdle ==
    /\ cfgFile = [t |-> "absent", doc |-> PyNone] /\ config = PyNone
    /\ clients = {} /\ ctor = "none" /\ instantiated = FALSE /\ invoked = FALSE
    /\ pc = "idle" /\ req = NoReq /\ tasks = <<>> /\ order = <<>>
    /\ taskOut = NoOut /\ fetchRaised = FALSE /\ results = <<>>
    /\ combined = EmptyFrame /\ written = <<>> /\ ret = NoRet /\ calls = 0

CombIdle == crIn = <<>> /\ crOut = NoRet /\ crPc = "off"

CliIdle ==
    /\ argv = NoArgv /\ cliPc = "off" /\ resolved = "none"
    /\ matches = EmptyFrame /\ outFiles = {} /\ success = "unset"
    /\ exitCode = -1

----------------------------------------------------------------------------
(* SpecCombine: _combine_results applied to a drawn list *)

InitCombine == OrchIdle /\ CliIdle /\ crIn \in CombineInputs
               /\ crOut = NoRet /\ crPc = "call"

Combine ==
    /\ crPc = "call"
    /\ crOut' = CombineResults(crIn)
    /\ crPc' = "done"
    /\ UNCHANGED <<crIn, orchVars, cliVars>>

NextCombine == Combine

SpecCombine == InitCombine /\ [][NextCombine]_vars

----------------------------------------------------------------------------
(* Spec: DataCollector() and then collect_league_data calls *)

Init ==
    /\ cfgFile \in ConfigFiles
    /\ config = PyNone /\ clients = {} /\ ctor = "none"
    /\ instantiated = FALSE /\ invoked = FALSE
    /\ pc = "idle" /\ req = NoReq /\ tasks = <<>> /\ order = <<>>
    /\ taskOut = NoOut /\ fetchRaised = FALSE /\ results = <<>>
    /\ combined = EmptyFrame /\ written = <<>> /\ ret = NoRet /\ calls = 0
    /\ CombIdle /\ CliIdle

callVars == <<pc, req, tasks, order, taskOut, fetchRaised, results, combined,
              written, ret, calls>>

\* __init__: _load_config, then _initialize_clients
Construct ==
    /\ ctor = "none"
    /\ LET loaded == LoadConfig(cfgFile)
           made   == InitializeClients(loaded.val)
       IN  IF loaded.kind = "raise"
           THEN /\ ctor' = "raised"
                /\ UNCHANGED <<config, clients, instantiated>>
           ELSE /\ config' = loaded.val
                /\ IF made.kind = "raise"
                   THEN /\ ctor' = "raised"
                        /\ UNCHANGED <<clients, instantiated>>
                   ELSE /\ ctor' = "ok"
                        /\ clients' = made.val
                        /\ instantiated' = ("football_data" \in made.val)
    /\ UNCHANGED <<cfgFile, invoked, callVars, combVars, cliVars>>

\* collect_league_data up to the await: the task list is built
CollectStart(league, season) ==
    /\ ctor = "ok"
    /\ pc \in {"idle", "done"}
    /\ calls < MaxCalls
    /\ calls' = calls + 1
    /\ req' = [league |-> league, season |-> season]
    /\ tasks' = (IF "football_data" \in clients THEN <<"football_data">> ELSE <<>>)
                    \o <<"free_data">>
    /\ order' = <<>> /\ taskOut' = NoOut /\ fetchRaised' = FALSE
    /\ results' = <<>> /\ combined' = EmptyFrame /\ written' = <<>>
    /\ ret' = NoRet
    /\ pc' = "gather"
    /\ UNCHANGED <<cfgFile, config, clients, ctor, instantiated, invoked,
                   combVars, cliVars>>

\* the football-data.org task runs: get_matches is called unless
\* int(season[:4]) raised first
RunFootballData(outcome) ==
    /\ pc = "gather"
    /\ "football_data" \in Range(tasks)
    /\ "football_data" \notin Range(order)
    /\ taskOut' = [taskOut EXCEPT
                     !.football_data = CollectMatchesFootballData(req.season, outcome)]
    /\ invoked' = (invoked \/ IntParses(Slice4(req.season)))
    /\ fetchRaised' = RaisesInTry(req.season, outcome)
    /\ order' = Append(order, "football_data")
    /\ UNCHANGED <<cfgFile, config, clients, ctor, instantiated, pc, req, tasks,
                   results, combined, written, ret, calls, combVars, cliVars>>

\* the free-data task runs
RunFreeData ==
    /\ pc = "gather"
    /\ "free_data" \in Range(tasks)
    /\ "free_data" \notin Range(order)
    /\ taskOut' = [taskOut EXCEPT !.free_data = CollectFreeData]
    /\ order' = Append(order, "free_data")
    /\ UNCHANGED <<cfgFile, config, clients, ctor, instantiated, invoked, pc, req,
                   tasks, fetchRaised, results, combined, written, ret, calls,
                   combVars, cliVars>>

\* collect_league_data after the await: combine, save, return
Finish(mkdirOk, csvOk, pqOk) ==
    /\ pc = "gather"
    /\ Len(order) = Len(tasks)
    /\ LET rs    == Gather(tasks, order, taskOut)
           cr    == CombineResults(rs)
           saved == SaveData(cr.val, req.league, req.season, mkdirOk, csvOk, pqOk)
       IN  /\ results' = rs
           /\ IF cr.kind = "raise"
              THEN /\ ret' = Raised
                   /\ UNCHANGED <<combined, written>>
              ELSE /\ combined' = cr.val
                   /\ written' = saved.files
                   /\ ret' = IF saved.kind = "raise" THEN Raised
                             ELSE Returned(cr.val)
    /\ pc' = "done"
    /\ UNCHANGED <<cfgFile, config, clients, ctor, instantiated, invoked, req,
                   tasks, order, taskOut, fetchRaised, calls, combVars, cliVars>>

Next ==
    \/ Construct
    \/ \E league \in Leagues, season \in Seasons : CollectStart(league, season)
    \/ \E outcome \in ClientOutcomes : RunFootballData(outcome)
    \/ RunFreeData
    \/ \E mkdirOk, csvOk, pqOk \in BOOLEAN : Finish(mkdirOk, csvOk, pqOk)

Spec == Init /\ [][Next]_vars

----------------------------------------------------------------------------
(* The demo collector, src/src/main.py *)

\* DataCollector.collect_matches: three demo rows
CollectMatches(league, season) ==
    Frame(<<"match_id", "home_team", "away_team", "date", "league", "season",
            "home_score", "away_score", "result">>,
          << <<"demo1", "Team A", "Team B", "2024-01-01", league, Join(season), 2, 1, "H">>,
             <<"demo2", "Team C", "Team D", "2024-01-02", league, Join(season), 1, 2, "D">>,
             <<"demo3", "Team E", "Team F", "2024-01-03", league, Join(season), 3, 1, "H">> >>)

----------------------------------------------------------------------------
(* SpecCLI: main() of src/main.py.  print and logging calls do not fail.   *)

Commands == {"collect", "train", "predict", "status"}

\* what the import in collect_data finds on sys.path: nothing importable,
\* the orchestrator class (which has no collect_matches), or the demo class
Resolutions == {"ImportError", "orchestrator", "simple"}

CommandLines ==
    {[command |-> c, league |-> l, season |-> s, valid |-> v] :
        c \in {"collect"}, l \in Leagues, s \in Seasons, v \in BOOLEAN}
      \cup {[command |-> c, league |-> "", season |-> <<>>, valid |-> v] :
              c \in (Commands \ {"collect"}) \cup {"", "bogus"}, v \in BOOLEAN}

\* parser.parse_args(): argparse ends the process with status 2 on a
\* subcommand that is not one of the subparsers or on arguments that do
\* not parse; -1 when it returns
ParseArgs(a) ==
    IF a.command \notin Commands \cup {""} \/ ~a.valid THEN 2 ELSE -1

\* collect_data(args): [ok, matches, files]
CollectData(res, league, season, mkdirOk, csvOk) ==
    IF res # "simple"
    THEN [ok |-> FALSE, matches |-> EmptyFrame, files |-> {}]
    ELSE LET m == CollectMatches(league, season)
         IN  IF IsEmpty(m) THEN [ok |-> TRUE, matches |-> m, files |-> {}]
             ELSE IF ~mkdirOk \/ ~csvOk
                  THEN [ok |-> FALSE, matches |-> m, files |-> {}]
                  ELSE [ok |-> TRUE, matches |-> m,
                        files |-> {FileName(league, season, ".csv")}]

\* lines 149-154
ExitStatus_AlwaysZero(ok) == 0

ExitStatus(ok) == IF ok THEN 0 ELSE 1

\* line 132: no subcommand
NoCommandStatus == 0

InitCLI ==
    /\ OrchIdle /\ CombIdle
    /\ argv \in CommandLines
    /\ cliPc = "start" /\ resolved = "none" /\ matches = EmptyFrame
    /\ outFiles = {} /\ success = "unset" /\ exitCode = -1

\* line 127
Parse ==
    /\ cliPc = "start"
    /\ IF ParseArgs(argv) = -1
       THEN cliPc' = "parsed" /\ UNCHANGED exitCode
       ELSE cliPc' = "exited" /\ exitCode' = ParseArgs(argv)
    /\ UNCHANGED <<argv, resolved, matches, outFiles, success, orchVars, combVars>>

\* lines 129-132
NoCommand ==
    /\ cliPc = "parsed"
    /\ argv.command = ""
    /\ exitCode' = NoCommandStatus
    /\ cliPc' = "exited"
    /\ UNCHANGED <<argv, resolved, matches, outFiles, success, orchVars, combVars>>

\* lines 136-137 and 149-154
RunCollect(res, mkdirOk, csvOk) ==
    /\ cliPc = "parsed"
    /\ argv.command = "collect"
    /\ LET r == CollectData(res, argv.league, argv.season, mkdirOk, csvOk)
       IN  /\ resolved' = res
           /\ matches' = r.matches
           /\ outFiles' = r.files
           /\ success' = IF r.ok THEN "true" ELSE "false"
           /\ exitCode' = ExitStatus(r.ok)
    /\ cliPc' = "exited"
    /\ UNCHANGED <<argv, orchVars, combVars>>

\* lines 138-141 and 149-151: train_model and predict_match return True
RunTrainOrPredict ==
    /\ cliPc = "parsed"
    /\ argv.command \in {"train", "predict"}
    /\ success' = "true"
    /\ exitCode' = ExitStatus(TRUE)
    /\ cliPc' = "exited"
    /\ UNCHANGED <<argv, resolved, matches, outFiles, orchVars, combVars>>

\* lines 142-144
RunStatus ==
    /\ cliPc = "parsed"
    /\ argv.command = "status"
    /\ exitCode' = 0
    /\ cliPc' = "exited"
    /\ UNCHANGED <<argv, resolved, matches, outFiles, success, orchVars, combVars>>

NextCLI ==
    \/ Parse
    \/ NoCommand
    \/ \E res \in Resolutions, mkdirOk, csvOk \in BOOLEAN : RunCollect(res, mkdirOk, csvOk)
    \/ RunTrainOrPredict
    \/ RunStatus

SpecCLI == InitCLI /\ [][NextCLI]_vars

----------------------------------------------------------------------------
(* Properties *)

\* the request's football-data.org result, once gathered
AuthIdx == IndexOf(tasks, "football_data")

NonEmptyFrame(r) == r.t = "df" /\ ~IsEmpty(r)

\* C1: when something raises inside the football-data.org fetch, the call
\* still returns normally, the free-data task has run to completion, the
\* failing source contributes an empty collection to the gathered results,
\* and the merged output is what _combine_results gives for an empty
\* collection in its place.
C1_FetchFailureIsolated ==
    (pc = "done" /\ fetchRaised) =>
        /\ "free_data" \in Range(order)
        /\ taskOut.free_data.kind = "return"
        /\ results[AuthIdx] = EmptyFrame
        /\ Returned(combined) = CombineResults(<<EmptyFrame, taskOut.free_data.val>>)
        /\ ret = Returned(combined)

\* a call finished in which the fetch raised before the free-data task ran
C1_Witness ==
    /\ pc = "done" /\ fetchRaised /\ invoked
    /\ order = <<"football_data", "free_data">>

\* data_sources.football_data_org.api_key holds a non-empty string
HasApiKey(file) ==
    /\ file.t = "doc"
    /\ file.doc.t = "dict"
    /\ \E kv1 \in file.doc.items :
         /\ kv1[1] = "data_sources" /\ kv1[2].t = "dict"
         /\ \E kv2 \in kv1[2].items :
              /\ kv2[1] = "football_data_org" /\ kv2[2].t = "dict"
              /\ \E kv3 \in kv2[2].items :
                   kv3[1] = "api_key" /\ kv3[2].t = "str" /\ kv3[2].s # ""

\* C2: with no API key in the configuration (file absent, key path absent,
\* key null or empty) the authenticated client is never constructed, is not
\* in the client mapping, is never given a task and is never called.
C2_NoKeyNoClient ==
    ~HasApiKey(cfgFile) =>
        /\ ~instantiated
        /\ ~invoked
        /\ "football_data" \notin clients
        /\ "football_data" \notin Range(tasks)

\* two calls finished on an orchestrator whose configured key is the empty string
C2_Witness ==
    /\ ~HasApiKey(cfgFile)
    /\ cfgFile.t = "doc" /\ cfgFile.doc.t = "dict"
    /\ ApiKeyOf(cfgFile.doc) = [kind |-> "return", val |-> PyStr("")]
    /\ ctor = "ok" /\ pc = "done" /\ calls >= 2

NonEmptyAt(rs) == {i \in 1..Len(rs) : NonEmptyFrame(rs[i])}

\* exactly one non-empty collection, the others empty collections or exceptions
ExactlyOneNonEmpty(rs) ==
    /\ Cardinality(NonEmptyAt(rs)) = 1
    /\ \A i \in 1..Len(rs) : rs[i].t \in {"df", "exc"}

\* C3: a result list with exactly one non-empty collection, the others
\* being empty collections or exceptions at any position, combines to that
\* collection unchanged.
C3_SingleNonEmpty ==
    (crPc = "done" /\ ExactlyOneNonEmpty(crIn)) =>
        crOut = Returned(crIn[CHOOSE i \in NonEmptyAt(crIn) : TRUE])

\* the non-empty collection came last, after an empty collection that has columns
C3_Witness ==
    /\ crPc = "done" /\ ExactlyOneNonEmpty(crIn)
    /\ Len(crIn) = 2
    /\ crIn[1].t = "df" /\ crIn[1].cols # <<>>
    /\ NonEmptyFrame(crIn[2])
    /\ crOut = Returned(crIn[2])

BothKeyed(rs) ==
    /\ Len(rs) = 2
    /\ \A i \in 1..2 : NonEmptyFrame(rs[i]) /\ HasKey(rs[i])

\* every row of the base is in the output, cell for cell
BaseRowsKept(a, out) ==
    \A i \in 1..Len(a.rows) : \E n \in 1..Len(out.rows) :
        \A j \in 1..Len(a.cols) : out.rows[n][j] = a.rows[i][j]

\* every row of the other result is in the output: its key in the key
\* column, its other cells after the base's columns
OtherRowsKept(a, b, out) ==
    \A i \in 1..Len(b.rows) : \E n \in 1..Len(out.rows) :
        /\ out.rows[n][KeyIdx(a)] = b.rows[i][KeyIdx(b)]
        /\ RemoveAt(b.rows[i], KeyIdx(b))
              = SubSeq(out.rows[n], Len(a.cols) + 1, Len(out.cols))

\* C4: for two non-empty results that both have match_id, the merged
\* output's match_ids are the union of theirs, every other column they
\* share is in the output under its own name and under the _dup suffix,
\* and every row of either input survives with all its values.
C4_UnionNoLoss ==
    (crPc = "done" /\ BothKeyed(crIn)) =>
        /\ crOut.kind = "return"
        /\ KeysOf(crOut.val) = KeysOf(crIn[1]) \cup KeysOf(crIn[2])
        /\ \A c \in ToRename(crIn[1], crIn[2]) :
             c \in Range(crOut.val.cols) /\ (c \o "_dup") \in Range(crOut.val.cols)
        /\ BaseRowsKept(crIn[1], crOut.val)
        /\ OtherRowsKept(crIn[1], crIn[2], crOut.val)

\* C5: the gathered results are in task-list order whatever the completion
\* order: the football-data.org result first when that client is
\* configured, the free-data result last; a non-empty football-data.org
\* result is the merge base, and the merged output is a function of the
\* two source outputs alone.
C5_TaskListOrder ==
    pc = "done" =>
        /\ Len(results) = Len(tasks)
        /\ results[Len(results)] = taskOut.free_data.val
        /\ "football_data" \in clients =>
             /\ tasks = <<"football_data", "free_data">>
             /\ results[1] = taskOut.football_data.val
             /\ NonEmptyFrame(results[1]) =>
                  /\ SubSeq(combined.cols, 1, Len(results[1].cols)) = results[1].cols
                  /\ BaseRowsKept(results[1], combined)
        /\ Returned(combined)
              = CombineResults(IF "football_data" \in clients
                               THEN <<taskOut.football_data.val, taskOut.free_data.val>>
                               ELSE <<taskOut.free_data.val>>)

\* the free-data task completed first and the football-data.org result is non-empty
C5_Witness ==
    /\ pc = "done"
    /\ order = <<"free_data", "football_data">>
    /\ NonEmptyFrame(taskOut.football_data.val)
    /\ combined = taskOut.football_data.val

\* the statuses main() is said to end with
SaidStatus ==
    IF argv.command = "" \/ argv.command \notin Commands THEN 1
    ELSE IF success = "false" THEN 1 ELSE 0

\* C6 as stated: status 0 when the subcommand succeeds, 1 when it fails,
\* when none is given, or when it is not a known one.
C6_AsStated ==
    (cliPc = "exited" /\ argv.valid) => exitCode = SaidStatus

\* C6 as the code has it: status 0 when the subcommand succeeds and when
\* no subcommand is given, 1 when the subcommand fails, and 2, from the
\* argument parser, when the subcommand is not a known one or the
\* arguments do not parse.
C6_ExitStatus ==
    cliPc = "exited" =>
        exitCode = (IF ~argv.valid \/ argv.command \notin Commands \cup {""} THEN 2
                    ELSE IF argv.command = "" THEN 0
                    ELSE IF success = "false" THEN 1
                    ELSE 0)

\* collect has failed and the process has ended
C6_Witness ==
    /\ cliPc = "exited" /\ argv.command = "collect" /\ argv.valid
    /\ success = "false" /\ exitCode = 1

\* C7: with a non-empty merged result the call returns it, whatever the
\* two writes did.
C7_ReturnsDespiteWriteFailure ==
    (pc = "done" /\ ~IsEmpty(combined)) => ret = Returned(combined)

ScoreOf(row, col) == row[IndexOf(matches.cols, col)]

\* C8: every row collect_matches returned has H, D or A as its scores say.
C8_ResultFromScores ==
    \A i \in 1..Len(matches.rows) :
        LET row == matches.rows[i]
            h   == ScoreOf(row, "home_score")
            a   == ScoreOf(row, "away_score")
        IN  ScoreOf(row, "result")
                = (IF h > a THEN "H" ELSE IF h = a THEN "D" ELSE "A")

\* the file name the sink is to use: league, then the season with every
\* '-' turned into '_'
NamedFor(file, league, season, ext) ==
    /\ file.dir = "data/raw" /\ file.league = league /\ file.ext = ext
    /\ Len(file.stem) = Len(season)
    /\ \A i \in 1..Len(season) :
         file.stem[i] = (IF season[i] = "-" THEN "_" ELSE season[i])

NamedLoaderOutcome(file) ==
    \/ file.t = "absent"
    \/ file.t = "doc" /\ file.doc.t \in {"none", "dict"}

\* C10: whenever the loader returns (file absent, file with no content,
\* file without the key, file with the key) construction completes with
\* the free-data client in the mapping, and every task list has exactly
\* one free-data task, after the football-data.org task when there is one.
C10_ConstructionCompletes ==
    (NamedLoaderOutcome(cfgFile) /\ ctor # "none") =>
        /\ ctor = "ok"
        /\ "free_data" \in clients
        /\ pc # "idle" =>
             /\ Cardinality({i \in 1..Len(tasks) : tasks[i] = "free_data"}) = 1
             /\ tasks[Len(tasks)] = "free_data"

====
